---- MODULE Spec2Model ----
(***************************************************************************)
(* Model of the elevator simulator of src/main.rs: the Elevator aggregate  *)
(* (cur, stops, state, dir) with its two operations move_to and tick, and  *)
(* main's loop with the input thread that feeds it through a channel.      *)
(***************************************************************************)
EXTENDS Integers, Sequences, FiniteSets, TLC

VARIABLES
  cur,       \* Elevator.cur: the current floor, an i8
  stops,     \* Elevator.stops: BTreeSet<Floor>, the pending floors
  state,     \* Elevator.state: Stopped | Moving(Dir) | Opened
  dir,       \* Elevator.dir: Up | Down
  panicked,  \* TRUE once an operation on the Elevator has panicked
  last,      \* the most recent call on the Elevator and what it returned
  reqs,      \* scripted runs: the requests issued before the first tick
  log,       \* scripted runs: the Elevator after each tick so far
  chan,      \* main: the messages sent on the channel and not yet received
  error,     \* main: the held error, `error: &mut Option<Error>`
  alive,     \* main: TRUE while the input thread (the Sender) lives
  pc,        \* main: where the loop is, or how it ended
  polled,    \* main: what the most recent try_recv returned
  nsent,     \* main: how many messages the input thread has sent
  heading    \* main: the payload of the most recent Moving state

elev == <<cur, stops, state, dir, panicked>>
loopvars == <<chan, error, alive, pc, polled, nsent, heading>>
vars == <<cur, stops, state, dir, panicked, last, reqs, log,
          chan, error, alive, pc, polled, nsent, heading>>

----------------------------------------------------------------------------
(* Types and constants of the program *)

\* Floor(i8): the width of the floor number
I8Min == -128
I8Max == 127

\* Elevator::MIN, Elevator::MAX
MIN == -2
MAX == 5

\* enum Dir
Up == "Up"
Down == "Down"
Dir == {Up, Down}

\* enum State
Stopped == <<"Stopped">>
Opened == <<"Opened">>
Moving(d) == <<"Moving", d>>
State == {Stopped, Opened} \cup {Moving(d) : d \in Dir}

----------------------------------------------------------------------------
(* Bounds of the model *)

\* requests range over [MIN - ReqMargin, MAX + ReqMargin] and the two ends of i8
ReqMargin == 1
\* scripted runs: how many requests precede the first tick, how many ticks follow
MaxReqs == 2
MaxTicks == 12
\* main loop: how many lines the input thread reads and sends
MaxSends == 2

Requests == ((MIN - ReqMargin) .. (MAX + ReqMargin)) \cup {I8Min, I8Max}

----------------------------------------------------------------------------
(* Pure helpers *)

\* BTreeSet::first / BTreeSet::last of a non-empty set
First(S) == CHOOSE x \in S : \A y \in S : x <= y
Last(S) == CHOOSE x \in S : \A y \in S : y <= x

\* Elevator::floors: the iterator MIN.0 ..= MAX.0
floors == MIN .. MAX

\* validate over the half-open range MIN.0 .. MAX.0
validate_exclusive(floor) == \E f \in MIN .. (MAX - 1) : f = floor

\* Elevator::validate: Ok iff some floor of floors() equals the argument
validate(floor) == \E f \in floors : f = floor

\* i8 addition `self.cur.0 + d` (d is 1 or -1): in range it is exact; out of
\* range the build decides between a panic (overflow checks) and wrapping.
AddI8(x, d) ==
  IF x + d > I8Max THEN {[panic |-> TRUE, v |-> x], [panic |-> FALSE, v |-> x + d - 256]}
  ELSE IF x + d < I8Min THEN {[panic |-> TRUE, v |-> x], [panic |-> FALSE, v |-> x + d + 256]}
  ELSE {[panic |-> FALSE, v |-> x + d]}

\* the seeding comparison written >=, and written the wrong way round
SeedDir_ge(floor, c) == IF floor >= c THEN Up ELSE Down
SeedDir_inverted(floor, c) == IF floor < c THEN Up ELSE Down

\* move_to, line 44: the direction seeded when the queue is empty
SeedDir(floor, c) == IF floor > c THEN Up ELSE Down

\* the flip after an upward step written with > for >=
DirAfterUp_gt(c, S, d) == IF c > Last(S) THEN Down ELSE d

\* tick, lines 77-79: Direction after an upward step to floor c with queue S
DirAfterUp(c, S, d) == IF c >= Last(S) THEN Down ELSE d

\* the flip after a downward step written with < for <=
DirAfterDown_lt(c, S, d) == IF c < First(S) THEN Up ELSE d

\* tick, lines 83-85: Direction after a downward step to floor c with queue S
DirAfterDown(c, S, d) == IF c <= First(S) THEN Up ELSE d

----------------------------------------------------------------------------
(* Elevator::default *)

InitElevator ==
  /\ cur = 0
  /\ stops = {}
  /\ state = Stopped
  /\ dir = Up
  /\ panicked = FALSE

Init ==
  /\ InitElevator
  /\ last = [op |-> "new", floor |-> 0, ok |-> TRUE]
  /\ reqs = <<>>
  /\ log = <<>>
  /\ chan = <<>>
  /\ error = "None"
  /\ alive = TRUE
  /\ pc = "recv"
  /\ polled = "None"
  /\ nsent = 0
  /\ heading = "None"

----------------------------------------------------------------------------
(* Elevator::move_to *)

\* move_to seeding the direction before it validates the floor
move_to_seed_before_validate(floor) ==
  /\ ~panicked
  /\ dir' = IF stops = {} THEN SeedDir(floor, cur) ELSE dir
  /\ stops' = IF validate(floor) THEN stops \cup {floor} ELSE stops
  /\ UNCHANGED <<cur, state, panicked>>
  /\ last' = [op |-> "move_to", floor |-> floor, ok |-> validate(floor)]

\* move_to with the is_empty test negated
move_to_seed_when_nonempty(floor) ==
  /\ ~panicked
  /\ IF ~validate(floor)
     THEN /\ UNCHANGED elev
          /\ last' = [op |-> "move_to", floor |-> floor, ok |-> FALSE]
     ELSE /\ dir' = IF stops # {} THEN SeedDir(floor, cur) ELSE dir
          /\ stops' = stops \cup {floor}
          /\ UNCHANGED <<cur, state, panicked>>
          /\ last' = [op |-> "move_to", floor |-> floor, ok |-> TRUE]

\* move_to keeping a single target instead of inserting into the queue
move_to_replace(floor) ==
  /\ ~panicked
  /\ IF ~validate(floor)
     THEN /\ UNCHANGED elev
          /\ last' = [op |-> "move_to", floor |-> floor, ok |-> FALSE]
     ELSE /\ dir' = IF stops = {} THEN SeedDir(floor, cur) ELSE dir
          /\ stops' = {floor}
          /\ UNCHANGED <<cur, state, panicked>>
          /\ last' = [op |-> "move_to", floor |-> floor, ok |-> TRUE]

move_to(floor) ==
  /\ ~panicked
  /\ IF ~validate(floor)
     THEN /\ UNCHANGED elev
          /\ last' = [op |-> "move_to", floor |-> floor, ok |-> FALSE]
     ELSE /\ dir' = IF stops = {} THEN SeedDir(floor, cur) ELSE dir
          /\ stops' = stops \cup {floor}
          /\ UNCHANGED <<cur, state, panicked>>
          /\ last' = [op |-> "move_to", floor |-> floor, ok |-> TRUE]

(* Elevator::tick *)

\* `contains` written for `remove`: the floor stays in the queue
Removed_keep(S, c) == S

\* the queue after `self.stops.remove(&self.cur)`
Removed(S, c) == S \ {c}

\* the match with the empty-queue arm placed before the should_open arm
Arm_idle_first(should_open, rest, st) ==
  IF rest = {} THEN "idle"
  ELSE IF should_open THEN "open"
  ELSE IF st \in {Stopped, Opened} THEN "commit"
  ELSE IF st = Moving(Up) THEN "up"
  ELSE "down"

\* the match with the commit arm placed before the empty-queue arm
Arm_commit_first(should_open, rest, st) ==
  IF should_open THEN "open"
  ELSE IF st \in {Stopped, Opened} THEN "commit"
  ELSE IF rest = {} THEN "idle"
  ELSE IF st = Moving(Up) THEN "up"
  ELSE "down"

\* the match with the commit arm for Stopped alone: with floors pending, open
\* doors stay open
Arm_opened_waits(should_open, rest, st) ==
  IF should_open THEN "open"
  ELSE IF rest = {} THEN "idle"
  ELSE IF st = Stopped THEN "commit"
  ELSE IF st = Opened THEN "open"
  ELSE IF st = Moving(Up) THEN "up"
  ELSE "down"

\* the arm of the match that a tick takes
Arm(should_open, rest, st) ==
  IF should_open THEN "open"
  ELSE IF rest = {} THEN "idle"
  ELSE IF st \in {Stopped, Opened} THEN "commit"
  ELSE IF st = Moving(Up) THEN "up"
  ELSE "down"

tick ==
  /\ ~panicked
  /\ LET should_open == cur \in stops
         rest == Removed(stops, cur)
         arm == Arm(should_open, rest, state)
     IN /\ stops' = rest
        /\ CASE arm = "open" ->
                  /\ state' = Opened
                  /\ UNCHANGED <<cur, dir, panicked>>
             [] arm = "idle" ->
                  /\ state' = Stopped
                  /\ UNCHANGED <<cur, dir, panicked>>
             [] arm = "commit" ->
                  /\ state' = Moving(dir)
                  /\ UNCHANGED <<cur, dir, panicked>>
             [] arm = "up" ->
                  \E r \in AddI8(cur, 1) :
                    /\ panicked' = r.panic
                    /\ cur' = r.v
                    /\ dir' = IF r.panic THEN dir ELSE DirAfterUp(r.v, rest, dir)
                    /\ UNCHANGED state
             [] arm = "down" ->
                  \E r \in AddI8(cur, -1) :
                    /\ panicked' = r.panic
                    /\ cur' = r.v
                    /\ dir' = IF r.panic THEN dir ELSE DirAfterDown(r.v, rest, dir)
                    /\ UNCHANGED state
        /\ last' = [op |-> "tick", floor |-> cur, ok |-> should_open]

----------------------------------------------------------------------------
(* Any interleaving of move_to and tick on one Elevator *)

Call(f) == move_to(f) /\ UNCHANGED <<reqs, log>> /\ UNCHANGED loopvars

Step == tick /\ UNCHANGED <<reqs, log>> /\ UNCHANGED loopvars

Next == (\E f \in Requests : Call(f)) \/ Step

Spec == Init /\ [][Next]_vars

----------------------------------------------------------------------------
(* Scripted runs: up to MaxReqs move_to calls on the default Elevator, then *)
(* only ticks; log keeps the Elevator as each tick left it.                 *)

Snapshot(c, S, st, d) == [cur |-> c, stops |-> S, state |-> st, dir |-> d]

Request(f) ==
  /\ log = <<>>
  /\ Len(reqs) < MaxReqs
  /\ move_to(f)
  /\ reqs' = Append(reqs, f)
  /\ UNCHANGED log
  /\ UNCHANGED loopvars

Advance ==
  /\ Len(log) < MaxTicks
  /\ tick
  /\ log' = Append(log, Snapshot(cur', stops', state', dir'))
  /\ UNCHANGED reqs
  /\ UNCHANGED loopvars

NextScript == (\E f \in Requests : Request(f)) \/ Advance

SpecScript == Init /\ [][NextScript]_vars

----------------------------------------------------------------------------
(* Single requests: a request is made only while the car is idle (empty     *)
(* queue, Stopped), and the main loop keeps ticking.                        *)

Ask(f) ==
  /\ stops = {}
  /\ state = Stopped
  /\ move_to(f)
  /\ reqs' = <<f>>
  /\ UNCHANGED log
  /\ UNCHANGED loopvars

Trip == tick /\ UNCHANGED <<reqs, log>> /\ UNCHANGED loopvars

NextSingle == (\E f \in Requests : Ask(f)) \/ Trip

SpecSingle == Init /\ [][NextSingle]_vars /\ WF_vars(Trip)

----------------------------------------------------------------------------
(* Draining: up to MaxReqs move_to calls at any moments between the ticks,   *)
(* and the main loop keeps ticking, so that from some tick on only ticks     *)
(* follow.                                                                  *)

Press(f) ==
  /\ Len(reqs) < MaxReqs
  /\ move_to(f)
  /\ reqs' = Append(reqs, f)
  /\ UNCHANGED log
  /\ UNCHANGED loopvars

NextDrain == (\E f \in Requests : Press(f)) \/ Trip

SpecDrain == Init /\ [][NextDrain]_vars /\ WF_vars(Trip)

----------------------------------------------------------------------------
(* The program: main's loop and the input thread of floor_channel.  One     *)
(* cycle of the loop is try_recv (Poll), elevator.tick (LoopTick), draw_ui   *)
(* and the sleep (Draw); the input thread sends what scan_floor parsed.     *)

\* scan_floor: a line that parses as an i8, or one that does not
FloorMsg(f) == [ok |-> TRUE, floor |-> f]
Malformed == [ok |-> FALSE, floor |-> 0]
Lines == {FloorMsg(f) : f \in Requests} \cup {Malformed}

\* try_recv emptying the channel instead of taking one message
Rest_drain(ch) == <<>>

\* the channel after try_recv has taken its first message
Rest(ch) == Tail(ch)

\* line 126, Err(TryRecvError::Empty) => (): the held error stays
ErrorOnEmpty(e) == e

\* the loop has ended: panic!() on Disconnected, a panic inside tick or
\* draw_ui, or draw_ui's Err returned by main
Ended == pc \in {"disconnected", "panicked", "io_error"}

\* floor_channel, line 164: tx.send(scan_floor().unwrap())
Send(m) ==
  /\ ~Ended
  /\ alive
  /\ nsent < MaxSends
  /\ chan' = Append(chan, m)
  /\ nsent' = nsent + 1
  /\ UNCHANGED <<elev, last, reqs, log, error, alive, pc, polled, heading>>

\* floor_channel, line 164: scan_floor's Err makes unwrap panic, the thread
\* ends and its Sender is dropped
Die ==
  /\ ~Ended
  /\ alive
  /\ alive' = FALSE
  /\ UNCHANGED <<elev, last, reqs, log, chan, error, pc, polled, nsent, heading>>

\* main, lines 122-127: the match on floor_channel.try_recv()
Poll ==
  /\ pc = "recv"
  /\ UNCHANGED <<reqs, log, alive, nsent, heading>>
  /\ IF chan # <<>>
     THEN LET m == Head(chan)
          IN /\ chan' = Rest(chan)
             /\ pc' = "tick"
             /\ IF m.ok
                THEN /\ move_to(m.floor)
                     /\ error' = IF last'.ok THEN "None" ELSE "OutOfRange"
                     /\ polled' = IF last'.ok THEN "Accepted" ELSE "Rejected"
                ELSE /\ error' = "InvalidFloorText"
                     /\ polled' = "Malformed"
                     /\ UNCHANGED <<elev, last>>
     ELSE IF alive
     THEN /\ error' = ErrorOnEmpty(error)
          /\ polled' = "Empty"
          /\ pc' = "tick"
          /\ UNCHANGED <<elev, last, chan>>
     ELSE /\ polled' = "Disconnected"
          /\ pc' = "disconnected"
          /\ UNCHANGED <<elev, last, chan, error>>

\* main, line 128: elevator.tick()
LoopTick ==
  /\ pc = "tick"
  /\ tick
  /\ pc' = IF panicked' THEN "panicked" ELSE "draw"
  /\ heading' = IF state' = Moving(Up) THEN Up
                ELSE IF state' = Moving(Down) THEN Down
                ELSE heading
  /\ UNCHANGED <<reqs, log, chan, error, alive, polled, nsent>>

\* main, lines 129-130: draw_ui and the sleep.  `clear` may fail (main returns
\* the Err); formatting the Elevator calls idx(), whose unwrap panics when the
\* current floor is not one of floors().
Draw ==
  /\ pc = "draw"
  /\ \E clear_failed \in BOOLEAN :
       pc' = IF clear_failed THEN "io_error"
             ELSE IF cur \notin floors THEN "panicked"
             ELSE "recv"
  /\ UNCHANGED <<elev, last, reqs, log, chan, error, alive, polled, nsent, heading>>

NextMain == (\E m \in Lines : Send(m)) \/ Die \/ Poll \/ LoopTick \/ Draw

SpecMain == Init /\ [][NextMain]_vars

----------------------------------------------------------------------------
(* Properties *)

\* what `last` says of the step just taken
IsTick(l) == l.op = "tick"
IsMoveTo(l) == l.op = "move_to"
Succeeded(l) == l.op = "move_to" /\ l.ok
Failed(l) == l.op = "move_to" /\ ~l.ok

\* C1: in every state reachable by move_to and tick calls the current floor
\* lies in [MIN, MAX], so that idx (its position in floors()) is defined.
C1_FloorInRange == MIN <= cur /\ cur <= MAX

\* C4: move_to(f) returns Ok if and only if MIN <= f <= MAX, whatever the
\* Elevator's state.
C4_MoveToOkIffInRange ==
  IsMoveTo(last) => (last.ok <=> (MIN <= last.floor /\ last.floor <= MAX))

C4_Witness ==
  /\ Succeeded(last) /\ last.floor = MAX
  /\ state = Moving(Down) /\ cur < MIN

\* C5: a move_to that fails leaves current floor, queue, MotionState and
\* Direction as they were, also when the queue is empty.
C5_FailedMoveToChangesNothing ==
  [][Failed(last') => UNCHANGED <<cur, stops, state, dir, panicked>>]_vars

\* a failed call on an empty queue whose floor would have seeded the other direction
C5_Witness ==
  /\ Failed(last)
  /\ stops = {}
  /\ \/ last.floor > cur /\ dir = Down
     \/ last.floor <= cur /\ dir = Up

\* C6: a second move_to(f) right after a move_to(f) changes nothing of the
\* Elevator: queue, Direction, floor and MotionState stay as the first call
\* left them.
C6_MoveToIdempotent ==
  [][(IsMoveTo(last) /\ IsMoveTo(last') /\ last'.floor = last.floor)
       => UNCHANGED <<cur, stops, state, dir, panicked>>]_vars

\* the state a first call on an empty queue leaves, where a second call tests again
C6_Witness ==
  /\ Succeeded(last)
  /\ stops = {last.floor}
  /\ dir = SeedDir(last.floor, cur)
  /\ state = Opened

\* C7: a successful move_to(f) puts f in the queue, removes no floor and adds no
\* other, leaves floor and MotionState alone, and changes Direction only if
\* the queue was empty.
C7_MoveToFrame ==
  [][Succeeded(last') =>
       /\ last'.floor \in stops'
       /\ stops \subseteq stops'
       /\ stops' \subseteq stops \cup {last'.floor}
       /\ cur' = cur
       /\ state' = state
       /\ panicked' = panicked
       /\ (stops # {} => dir' = dir)]_vars

\* a request accepted in mid-flight, next to other pending floors
C7_Witness ==
  /\ Succeeded(last)
  /\ Cardinality(stops) >= 3
  /\ state = Moving(Up)

\* C8: a successful move_to(f) on an empty queue sets Direction to Up if
\* f > current floor and to Down otherwise (also when f = current floor); on a
\* non-empty queue it leaves Direction alone.
C8_DirectionSeeding ==
  [][Succeeded(last') =>
       dir' = IF stops = {}
              THEN (IF last'.floor > cur THEN Up ELSE Down)
              ELSE dir]_vars

\* the request for the current floor itself, made on an empty queue
C8_Witness ==
  /\ Succeeded(last)
  /\ last.floor = cur
  /\ stops = {cur}
  /\ dir = Down

\* C10: MotionState is Opened only if the most recent tick removed the current
\* floor from the queue: Opened is not the state before the first tick, a tick
\* ends in Opened exactly when it starts with the current floor in the queue
\* (which it then removes, staying at that floor), and move_to changes
\* neither MotionState nor the current floor.
C10_OpenedIffTickRemoved ==
  /\ [](last.op = "new" => state # Opened)
  /\ [](IsTick(last) => /\ (state = Opened <=> last.ok)
                        /\ (last.ok => last.floor = cur /\ cur \notin stops))
  /\ [][IsTick(last') =>
          /\ (state' = Opened <=> cur \in stops)
          /\ (cur \in stops => cur' = cur /\ stops' = stops \ {cur})]_vars
  /\ [][IsMoveTo(last') => state' = state /\ cur' = cur]_vars

\* doors opened by a tick while other floors remain pending
C10_Witness ==
  /\ IsTick(last) /\ last.ok
  /\ state = Opened
  /\ stops # {}

----------------------------------------------------------------------------
(* Properties of single requests (SpecSingle) *)

\* C2: when floor f is requested from an idle car (empty queue, Stopped) at a
\* floor c # f and only ticks follow, some tick sets MotionState to Opened
\* with the car at f and f out of the queue; ticks never put a floor into the
\* queue, so f stays out of it.
C2_SingleRequestServed ==
  /\ \A f \in floors :
       (Succeeded(last) /\ last.floor = f /\ state = Stopped /\ stops = {f} /\ cur # f)
         ~> (IsTick(last) /\ state = Opened /\ cur = f /\ f \notin stops)
  /\ [][IsTick(last') => stops' \subseteq stops]_vars

\* the doors open at the lowest floor after a trip down to it
C2_Witness ==
  /\ reqs = <<MIN>>
  /\ IsTick(last) /\ last.ok
  /\ state = Opened /\ cur = MIN /\ stops = {}
  /\ dir = Up

----------------------------------------------------------------------------
(* Properties of scripted runs (SpecScript) *)

\* the first tick that leaves the car Stopped with an empty queue, 0 if none yet
IdleAt(i) == log[i].state = Stopped /\ log[i].stops = {}
FirstIdle ==
  IF \E i \in 1..Len(log) : IdleAt(i)
  THEN CHOOSE i \in 1..Len(log) : IdleAt(i) /\ \A j \in 1..(i - 1) : ~IdleAt(j)
  ELSE 0

\* how many of the first n ticks ended with the doors open at floor fl
OpensAt(fl, n) ==
  Cardinality({i \in 1..n : log[i].state = Opened /\ log[i].cur = fl})

\* the floors the car was at: the start floor, then the floor after each of n ticks
Path(start, n) == <<start>> \o [i \in 1..n |-> log[i].cur]

\* p climbs (never falling) to top, then descends (never rising) to its last floor
RisesThenFalls(p, top) ==
  \E k \in 1..Len(p) :
    /\ p[k] = top
    /\ \A i \in 1..(k - 1) : p[i] <= p[i + 1]
    /\ \A i \in k..(Len(p) - 1) : p[i] >= p[i + 1]

\* C3 (Scenario C): after move_to(2), move_to(-1) on the default Elevator and
\* then only ticks, the car comes to rest (Stopped, empty queue), and up to that
\* tick it has opened its doors exactly once at floor 2 and exactly once at
\* floor -1, and has travelled from 0 up to 2 and then down to -1, turning once.
C3_ScenarioC ==
  reqs = <<2, -1>> =>
    /\ Len(log) = MaxTicks => FirstIdle # 0
    /\ FirstIdle # 0 =>
         /\ OpensAt(2, FirstIdle) = 1
         /\ OpensAt(-1, FirstIdle) = 1
         /\ RisesThenFalls(Path(0, FirstIdle), 2)
         /\ log[FirstIdle].cur = -1

C3_Witness == reqs = <<2, -1>> /\ FirstIdle # 0 /\ Len(log) = FirstIdle

\* C9 (Scenario A): after move_to(3) on the default Elevator, tick 1 leaves
\* Moving(Up) at floor 0, ticks 2, 3, 4 leave the car at floors 1, 2, 3, tick 4
\* turns Direction to Down, tick 5 removes 3 from the queue and opens the doors
\* at floor 3, tick 6 leaves Stopped with the queue empty.
C9_ScenarioA ==
  reqs = <<3>> =>
    /\ Len(log) >= 1 => log[1].state = Moving(Up) /\ log[1].cur = 0
    /\ Len(log) >= 2 => log[2].cur = 1
    /\ Len(log) >= 3 => log[3].cur = 2 /\ log[3].dir = Up
    /\ Len(log) >= 4 => log[4].cur = 3 /\ log[4].dir = Down /\ 3 \in log[4].stops
    /\ Len(log) >= 5 =>
         log[5].state = Opened /\ log[5].cur = 3 /\ 3 \notin log[5].stops
    /\ Len(log) >= 6 => log[6].state = Stopped /\ log[6].stops = {}

C9_Witness == reqs = <<3>> /\ Len(log) = 6

----------------------------------------------------------------------------
(* Further properties of any interleaving (Spec) *)

IsMoving(st) == st \in {Moving(Up), Moving(Down)}

\* C11: if MotionState is Opened when a tick starts, it is not Opened when that
\* tick ends.
C11_OpenedOneTick ==
  [][(IsTick(last') /\ state = Opened) => state' # Opened]_vars

\* C11, amended: a tick that starts in Opened ends in Opened exactly when the
\* current floor is in the queue again (it was requested while the doors were
\* open); otherwise the doors are open for that one tick only.
C11_OpenedOneTickUnlessRequested ==
  [][(IsTick(last') /\ state = Opened) => (state' = Opened <=> cur \in stops)]_vars

\* doors open, and a request for another floor has just been accepted
C11_Witness ==
  /\ state = Opened
  /\ Succeeded(last) /\ last.floor # cur
  /\ cur \notin stops

\* C16: a tick changes the current floor if and only if it starts in Moving(d)
\* with the current floor not in the queue and the queue not empty, and then
\* the floor changes by exactly one in direction d.
C16_FloorChangesIffAdvancing ==
  [][IsTick(last') =>
       LET advancing == IsMoving(state) /\ cur \notin stops /\ stops # {}
       IN /\ (cur' # cur <=> advancing)
          /\ (advancing => cur' = cur + (IF state = Moving(Up) THEN 1 ELSE -1))]_vars

\* C17: a tick that does not move the car leaves Direction alone; after an
\* upward step Direction is Down if the new floor >= every pending floor and
\* unchanged otherwise; after a downward step it is Up if the new floor <=
\* every pending floor and unchanged otherwise; no tick changes the payload of
\* a Moving state.
C17_DirectionByExtremalRule ==
  [][(IsTick(last') /\ ~panicked') =>
       /\ dir' = IF cur' = cur THEN dir
                 ELSE IF state = Moving(Up)
                      THEN (IF \A s \in stops' : s <= cur' THEN Down ELSE dir)
                      ELSE (IF \A s \in stops' : cur' <= s THEN Up ELSE dir)
       /\ (IsMoving(state) /\ IsMoving(state') => state' = state)]_vars

\* a downward step has just reached the lowest pending floor and turned Direction
C17_Witness ==
  /\ IsTick(last) /\ last.floor = cur + 1
  /\ state = Moving(Down)
  /\ cur \in stops /\ \A s \in stops : cur <= s
  /\ Cardinality(stops) >= 2
  /\ dir = Up

\* C18: whenever MotionState is Moving the queue is non-empty, and the queue a
\* tick is left with after moving the car (the one whose first or last floor
\* it read) is non-empty.
C18_ExtremalReadSafe ==
  /\ IsMoving(state) => stops # {}
  /\ (IsTick(last) /\ last.floor # cur) => stops # {}

\* a downward step taken with a single floor pending
C18_Witness ==
  /\ IsTick(last) /\ last.floor = cur + 1
  /\ state = Moving(Down)
  /\ Cardinality(stops) = 1

\* C20: whenever a tick would move the car (Moving(d), current floor not in
\* the queue), the queue holds a floor strictly ahead in direction d.
C20_MovesTowardPendingStop ==
  \A d \in Dir :
    (state = Moving(d) /\ cur \notin stops) =>
      \E s \in stops : IF d = Up THEN s > cur ELSE s < cur

----------------------------------------------------------------------------
(* Properties of the main loop (SpecMain) *)

\* C12: after a cycle that produces no new error, whether it took a valid
\* request from the channel or found the channel empty, the held error is None.
C12_ErrorClearedByQuietCycle ==
  polled \in {"Accepted", "Empty"} => error = "None"

\* C13: each cycle polls once without blocking, takes at most one message (the
\* oldest) and applies it, then ticks exactly once, then draws; the input
\* thread only appends to the channel and never touches the Elevator.
C13_OneMessageOneTickPerCycle ==
  [][/\ (pc = "recv" /\ pc' # pc) =>
          /\ pc' \in {"tick", "disconnected"}
          /\ chan' = IF chan = <<>> THEN chan ELSE Tail(chan)
          /\ chan = <<>> => UNCHANGED <<elev, last>>
          /\ chan # <<>> =>
               /\ pc' = "tick"
               /\ polled' # "Empty"
               /\ Head(chan).ok =>
                    IsMoveTo(last') /\ last'.floor = Head(chan).floor
               /\ ~Head(chan).ok =>
                    error' = "InvalidFloorText" /\ UNCHANGED <<elev, last>>
     /\ (pc = "tick" /\ pc' # pc) =>
          /\ pc' \in {"draw", "panicked"}
          /\ IsTick(last') /\ last'.floor = cur
          /\ stops' = stops \ {cur}
          /\ UNCHANGED <<chan, error>>
     /\ (pc = "draw" /\ pc' # pc) =>
          /\ pc' \in {"recv", "panicked", "io_error"}
          /\ UNCHANGED <<elev, last, chan, error>>
     /\ pc' = pc =>
          /\ UNCHANGED <<elev, last, error, polled>>
          /\ \/ chan' = chan
             \/ \E m \in Lines : chan' = Append(chan, m)]_vars

\* two lines were sent before a poll: the first has been applied, the second waits
C13_Witness ==
  /\ pc = "tick"
  /\ polled = "Accepted"
  /\ nsent = 2
  /\ Len(chan) = 1

\* C14: the loop ends on input only when a poll finds the channel disconnected
\* (input thread gone, nothing left to receive); apart from that only a failed
\* screen clear ends it.
C14_EndsOnlyOnDisconnect ==
  Ended =>
    \/ pc = "disconnected" /\ polled = "Disconnected" /\ ~alive /\ chan = <<>>
    \/ pc = "io_error"

\* C15: a commit tick never starts the car against its previous direction of
\* travel while a pending floor lies ahead of it in that previous direction.
C15_NoReversalWithStopAhead ==
  [][(pc = "tick" /\ ~IsMoving(state) /\ IsMoving(state')
        /\ heading \in Dir /\ heading' # heading) =>
       ~\E s \in stops' : IF heading = Up THEN s > cur ELSE s < cur]_vars

----------------------------------------------------------------------------
(* Properties of draining (SpecDrain) *)

\* C19: once only ticks follow, the Elevator comes to rest (Stopped, empty
\* queue) and stays there, and a floor leaves the queue only in a tick that
\* opens the doors at that floor.
C19_EveryRequestServed ==
  /\ <>[](state = Stopped /\ stops = {})
  /\ [][\A f \in floors :
          (f \in stops /\ f \notin stops') => (state' = Opened /\ cur' = f)]_vars

====
